---- MODULE Spec2Model ----
(***************************************************************************)
(* Ticket sale application (app.py): webhook-driven ticket issuance over   *)
(* a single SQLite table "ingressos".                                      *)
(*                                                                         *)
(* Every webhook request is a process that walks through the handler's     *)
(* statements; the points where it touches the shared table (SELECT by     *)
(* mp_payment_id, SELECT MAX(seq), INSERT) are separate steps, so that     *)
(* requests served by different workers interleave there.  The checkout    *)
(* and the admin routes (login, logout, the two listings) are served in    *)
(* one step each; the admin's browser is known by its session flag.        *)
(***************************************************************************)
EXTENDS Integers, Sequences, FiniteSets, Bags, TLC

(***************************************************************************)
(* Bounds of the model.                                                    *)
(***************************************************************************)
\* webhook requests received in one behaviour
MaxReqs == 3
\* webhook requests being served at the same time
MaxInFlight == 2

Reqs == 1..MaxReqs

(***************************************************************************)
(* JSON / Python values.  A value is a record tagged by its kind k.        *)
(***************************************************************************)
\* the key is not in the dict (dict.get gives None)
Missing == [k |-> "missing"]
\* JSON null, Python None
JNull == [k |-> "null"]
JStr(s) == [k |-> "str", s |-> s]
JInt(n) == [k |-> "int", n |-> n]
JList(items) == [k |-> "list", items |-> items]
\* a dict of which only the key "id" matters
JDict(id) == [k |-> "dict", id |-> id]

\* Python truth value of a value (None, "", 0, [] and {} are false)
Truthy(v) ==
    CASE v.k = "missing" -> FALSE
      [] v.k = "null" -> FALSE
      [] v.k = "str" -> v.s # ""
      [] v.k = "int" -> v.n # 0
      [] v.k = "list" -> v.items # <<>>
      [] v.k = "dict" -> v.id # Missing

\* a or b
PyOr(a, b) == IF Truthy(a) THEN a ELSE b

\* d.get(key): None when the key is missing
Get(v) == IF v = Missing THEN JNull ELSE v

Digit == <<"0", "1", "2", "3", "4", "5", "6", "7", "8", "9">>

\* decimal digits of n >= 0
RECURSIVE DecStr(_)
DecStr(n) == IF n < 10 THEN Digit[n + 1] ELSE DecStr(n \div 10) \o Digit[(n % 10) + 1]

\* the number a string of decimal digits writes; -1 when a character is no digit
RECURSIVE DecVal(_)
DecVal(s) ==
    IF s = "" THEN 0
    ELSE LET last == SubSeq(s, Len(s), Len(s))
             rest == DecVal(SubSeq(s, 1, Len(s) - 1))
         IN IF rest >= 0 /\ \E i \in 1..10 : Digit[i] = last
            THEN 10 * rest + (CHOOSE i \in 1..10 : Digit[i] = last) - 1
            ELSE -1

\* str(x) of an int or a str
PyStr(v) == IF v.k = "int" THEN DecStr(v.n) ELSE v.s

\* t occurs in s as a substring: Python's  t in s  for two strings
IsSubstring(t, s) ==
    \E i \in 1..(Len(s) - Len(t) + 1) : SubSeq(s, i, i + Len(t) - 1) = t

UpperCase == "ABCDEFGHIJKLMNOPQRSTUVWXYZ"
LowerCase == "abcdefghijklmnopqrstuvwxyz"

\* the lower-case letter of every upper-case letter
ToLower ==
    [c \in { SubSeq(UpperCase, i, i) : i \in 1..Len(UpperCase) } |->
        LET i == CHOOSE j \in 1..Len(UpperCase) : SubSeq(UpperCase, j, j) = c
        IN SubSeq(LowerCase, i, i)]

\* one character of str.lower()
LowerChar(c) == IF c \in DOMAIN ToLower THEN ToLower[c] ELSE c

\* the characters of s from the i-th on, in lower case
RECURSIVE LowerFrom(_, _)
LowerFrom(s, i) ==
    IF i > Len(s) THEN "" ELSE LowerChar(SubSeq(s, i, i)) \o LowerFrom(s, i + 1)

\* str.lower()
PyLower(s) == LowerFrom(s, 1)

(***************************************************************************)
(* Ticket codes.                                                           *)
(***************************************************************************)
PREFIX == "LUAL"

\* the padding that keeps the last w characters only
ZFillCut(s, w) ==
    LET padded == "0000" \o s
    IN SubSeq(padded, Len(padded) - w + 1, Len(padded))

RECURSIVE ZFill(_, _)
\* s left-padded with zeros to width w, never cut
ZFill(s, w) == IF Len(s) >= w THEN s ELSE ZFill("0" \o s, w)

\* f"{PREFIX}{seq:04d}" for seq >= 0
format_code(seq) == PREFIX \o ZFill(DecStr(seq), 4)

(***************************************************************************)
(* Notifications: the JSON body of the POST and its query string.          *)
(* body is a JSON object given by its keys type, topic, id and data;       *)
(* args holds the query parameters topic and id (a str, or Missing).       *)
(***************************************************************************)
Notification(type, topic, id, data, qtopic, qid) ==
    [body |-> [type |-> type, topic |-> topic, id |-> id, data |-> data],
     args |-> [topic |-> qtopic, id |-> qid]]

\* "id" in v : "raise" stands for the TypeError of a value that is no container
InId(v) ==
    CASE v.k = "dict" -> IF v.id # Missing THEN "true" ELSE "false"
      [] v.k = "str" -> IF IsSubstring("id", v.s) THEN "true" ELSE "false"
      [] v.k = "list" -> IF \E i \in 1..Len(v.items) : v.items[i] = "id" THEN "true" ELSE "false"
      [] OTHER -> "raise"

\* the elif chain after the first test: topic/id, then data.id, then the query string
ExtractRest(body, args) ==
    IF body.topic = JStr("payment") /\ body.id # Missing
    THEN body.id
    ELSE IF body.data # Missing /\ body.data.k = "dict" /\ body.data.id # Missing
    THEN body.data.id
    ELSE IF Get(args.topic) = JStr("payment") /\ Truthy(Get(args.id))
    THEN args.id
    ELSE JNull

\* payment_id as the try block leaves it; JNull is None (also after an exception)
ExtractPaymentId(body, args) ==
    IF body.type = JStr("payment") /\ body.data # Missing
    THEN CASE InId(body.data) = "raise" -> JNull
           [] InId(body.data) = "true" ->
                IF body.data.k = "dict" THEN body.data.id ELSE JNull
           [] OTHER -> ExtractRest(body, args)
    ELSE ExtractRest(body, args)

(***************************************************************************)
(* The environment: what the provider posts and what the gateway answers.  *)
(***************************************************************************)
NoBody == [type |-> Missing, topic |-> Missing, id |-> Missing, data |-> Missing]
NoArgs == [topic |-> Missing, id |-> Missing]

\* the notifications the provider posts to /webhook
Notifications ==
    { Notification(Missing, Missing, Missing, Missing, Missing, Missing),
      Notification(JStr("payment"), Missing, Missing, JDict(JStr("1")), Missing, Missing),
      Notification(Missing, JStr("payment"), JInt(2), Missing, Missing, Missing) }

\* the values of "status" in the gateway's answer
Statuses == { Missing, JStr("approved"), JStr("APPROVED"), JStr("pending") }

\* the payer data the gateway holds for a payment: payer.email and payer_email
Payer(payment) ==
    CASE payment = "1" -> [payer |-> [email |-> JStr("a@b.com")], payer_email |-> JStr("c@d.com")]
      [] payment = "2" -> [payer |-> [email |-> JStr("")], payer_email |-> JStr("c@d.com")]
      [] OTHER -> [payer |-> [email |-> Missing], payer_email |-> Missing]

\* the gateway's answer for a payment whose status is status
PaymentInfo(payment, status) ==
    [status |-> status, payer |-> Payer(payment).payer,
     payer_email |-> Payer(payment).payer_email]

(***************************************************************************)
(* State.                                                                  *)
(***************************************************************************)
VARIABLES
    \* whether the import of the payment SDK succeeded (fixed at start)
    MP_SDK_AVAILABLE,
    \* the rows of table ingressos, in insertion order
    ingressos,
    \* the webhook requests: position in the handler and its local variables
    req,
    \* the bag of messages handed to mail.send, with the outcome of the send
    mails,
    \* session["admin_logged"] of the one browser that visits the admin area
    admin_logged,
    \* the last response given to that browser or to a checkout
    reply

vars == <<MP_SDK_AVAILABLE, ingressos, req, mails, admin_logged, reply>>

\* the local variables of a request that has not set them yet
Fresh ==
    [pc |-> "idle", body |-> NoBody, args |-> NoArgs, payment_id |-> JNull,
     status |-> JNull, payer_email |-> "", seq |-> 0, codigo |-> "",
     generated_path |-> "", response |-> 0]

\* a response: the route that gave it, the status code, its text (or the
\* target of a redirect) and the rows it lists
Response(route, code, text, rows) ==
    [route |-> route, code |-> code, text |-> text, rows |-> rows]

NoReply == Response("", 0, "", <<>>)

Init ==
    /\ MP_SDK_AVAILABLE \in BOOLEAN
    /\ ingressos = <<>>
    /\ req = [d \in Reqs |-> Fresh]
    /\ mails = EmptyBag
    /\ admin_logged = FALSE
    /\ reply = NoReply

\* the requests being served
InFlight == { d \in Reqs : req[d].pc \notin {"idle", "done"} }

\* return "OK", 200 / the 500 of an exception no handler caught: the locals die
Return(code) == [Fresh EXCEPT !.pc = "done", !.response = code]

(***************************************************************************)
(* The table.                                                              *)
(***************************************************************************)
Rows == { ingressos[i] : i \in 1..Len(ingressos) }

\* the SELECT comparing another column: it finds nothing
SelectByCode(ref) == { r \in Rows : r.codigo = ref }

\* the SELECT without its WHERE: any row counts as the payment's
SelectAnyRow(ref) == Rows

\* SELECT * FROM ingressos WHERE mp_payment_id = ?
SelectByPayment(ref) == { r \in Rows : r.mp_payment_id = ref }

\* the query always answering NULL, as on an empty table
MaxSeqNull == Missing

\* SELECT MAX(seq) FROM ingressos: Missing stands for NULL
MaxSeq ==
    IF Rows = {} THEN Missing
    ELSE JInt(CHOOSE m \in { r.seq : r \in Rows } : \A r \in Rows : r.seq <= m)

\* next_seq with the + 1 forgotten
NextSeqStale ==
    IF MaxSeq # Missing THEN MaxSeq.n ELSE 0

next_seq ==
    LET maxseq == IF MaxSeq # Missing THEN MaxSeq.n ELSE 0
    IN maxseq + 1

\* the UNIQUE declared on mp_payment_id instead of codigo
ViolatesUniquePayment(row) == \E r \in Rows : r.mp_payment_id = row.mp_payment_id

\* the table created without its UNIQUE
NoConstraint(row) == FALSE

\* the constraints of CREATE TABLE: codigo is UNIQUE (mp_payment_id is not)
ViolatesUnique(row) == \E r \in Rows : r.codigo = row.codigo

(***************************************************************************)
(* POST /webhook, statement by statement.                                  *)
(***************************************************************************)
\* the provider posts notification n; a free worker takes the request
Post(d, n) ==
    /\ req[d].pc = "idle"
    /\ \A e \in Reqs : e < d => req[e].pc # "idle"
    /\ Cardinality(InFlight) < MaxInFlight
    /\ req' = [req EXCEPT ![d] = [Fresh EXCEPT !.pc = "received", !.body = n.body, !.args = n.args]]
    /\ UNCHANGED <<MP_SDK_AVAILABLE, ingressos, mails, admin_logged, reply>>

\* payment_id from the body or the query string; nothing to do without one or without the SDK
Extract(d) ==
    /\ req[d].pc = "received"
    /\ LET payment_id == ExtractPaymentId(req[d].body, req[d].args)
           r == [req[d] EXCEPT !.payment_id = payment_id, !.body = NoBody, !.args = NoArgs]
       IN req' = [req EXCEPT ![d] =
                    IF ~Truthy(payment_id) THEN Return(200)
                    ELSE IF ~MP_SDK_AVAILABLE THEN Return(200)
                    ELSE [r EXCEPT !.pc = "lookup"]]
    /\ UNCHANGED <<MP_SDK_AVAILABLE, ingressos, mails, admin_logged, reply>>

\* the two fields read in the other order
PayerEmailSwapped(payment_info) ==
    PyOr(PyOr(Get(payment_info.payer_email), Get(payment_info.payer.email)),
         JStr("sem-email@local")).s

\* payer.get("email") or payment_info.get("payer_email") or "sem-email@local"
PayerEmail(payment_info) ==
    PyOr(PyOr(Get(payment_info.payer.email), Get(payment_info.payer_email)),
         JStr("sem-email@local")).s

\* the status compared as it comes, without lower()
ApprovedExact(status) == Truthy(status) /\ status.s = "approved"

\* the test of the status reduced to: is there a status
ApprovedLax(status) == Truthy(status)

\* status and status.lower() == "approved"
Approved(status) == Truthy(status) /\ PyLower(status.s) = "approved"

\* sdk.payment().get(payment_id): it raises (logged, answered OK) or answers
\* payment_info, of which status and the payer's e-mail are kept
Lookup(d) ==
    /\ req[d].pc = "lookup"
    /\ \/ req' = [req EXCEPT ![d] = Return(200)]
       \/ \E status \in Statuses :
            LET payment_info == PaymentInfo(PyStr(req[d].payment_id), status)
            IN req' = [req EXCEPT ![d] =
                         [req[d] EXCEPT !.pc = "status",
                                        !.status = Get(payment_info.status),
                                        !.payer_email = PayerEmail(payment_info)]]
    /\ UNCHANGED <<MP_SDK_AVAILABLE, ingressos, mails, admin_logged, reply>>

\* the handler without its test of the status
CheckStatusSkipped(d) ==
    /\ req[d].pc = "status"
    /\ req' = [req EXCEPT ![d] = [req[d] EXCEPT !.pc = "select", !.status = JNull]]
    /\ UNCHANGED <<MP_SDK_AVAILABLE, ingressos, mails, admin_logged, reply>>

\* only an approved payment is processed; status is not read again
CheckStatus(d) ==
    /\ req[d].pc = "status"
    /\ req' = [req EXCEPT ![d] =
                 IF Approved(req[d].status)
                 THEN [req[d] EXCEPT !.pc = "select", !.status = JNull]
                 ELSE Return(200)]
    /\ UNCHANGED <<MP_SDK_AVAILABLE, ingressos, mails, admin_logged, reply>>

\* the replay that sends the ticket of the row found once more
SelectExistingResends(d) ==
    /\ req[d].pc = "select"
    /\ LET already == SelectByPayment(PyStr(req[d].payment_id))
       IN IF already # {}
          THEN /\ req' = [req EXCEPT ![d] = Return(200)]
               /\ mails' = mails (+) SetToBag({ [to |-> r.comprador_email, codigo |-> r.codigo,
                                                 sent |-> TRUE] : r \in already })
          ELSE /\ req' = [req EXCEPT ![d] = [req[d] EXCEPT !.pc = "next_seq"]]
               /\ UNCHANGED mails
    /\ UNCHANGED <<MP_SDK_AVAILABLE, ingressos, admin_logged, reply>>

\* already processed?  SELECT by mp_payment_id; a row found ends the request
SelectExisting(d) ==
    /\ req[d].pc = "select"
    /\ LET already == SelectByPayment(PyStr(req[d].payment_id))
       IN req' = [req EXCEPT ![d] =
                    IF already # {} THEN Return(200)
                    ELSE [req[d] EXCEPT !.pc = "next_seq"]]
    /\ UNCHANGED <<MP_SDK_AVAILABLE, ingressos, mails, admin_logged, reply>>

\* where the stamped image of a code is saved
GeneratedPath(codigo) == "static/ingressos/" \o codigo \o ".png"

\* generated_path after the stamping block: the image is skipped without Pillow
\* or base image ("skipped"), fails inside the try ("error"), or is saved
\* ("saved"); "" is None
Stamp(codigo, outcome) == IF outcome = "saved" THEN GeneratedPath(codigo) ELSE ""

\* seq = next_seq(); codigo = format_code(seq); then the stamped image, which
\* touches nothing another request reads
NextSeq(d) ==
    /\ req[d].pc = "next_seq"
    /\ \E outcome \in {"skipped", "error", "saved"} :
         LET seq == next_seq
             codigo == format_code(seq)
         IN req' = [req EXCEPT ![d] =
                      [req[d] EXCEPT !.pc = "insert", !.seq = seq, !.codigo = codigo,
                                     !.generated_path = Stamp(codigo, outcome)]]
    /\ UNCHANGED <<MP_SDK_AVAILABLE, ingressos, mails, admin_logged, reply>>

\* the row of the INSERT; id is the AUTOINCREMENT key
NewRow(d) ==
    [id |-> Len(ingressos) + 1, evento |-> "Lual na Praia", seq |-> req[d].seq,
     codigo |-> req[d].codigo, comprador_email |-> req[d].payer_email,
     status |-> "pago", mp_payment_id |-> PyStr(req[d].payment_id)]

\* the INSERT written as INSERT OR REPLACE: the row holding the code gives way
InsertOrReplace(d) ==
    /\ req[d].pc = "insert"
    /\ ingressos' =
         IF ViolatesUnique(NewRow(d))
         THEN [i \in 1..Len(ingressos) |->
                 IF ingressos[i].codigo = NewRow(d).codigo
                 THEN [NewRow(d) EXCEPT !.id = i] ELSE ingressos[i]]
         ELSE Append(ingressos, NewRow(d))
    /\ req' = [req EXCEPT ![d] = [req[d] EXCEPT !.pc = "mail"]]
    /\ UNCHANGED <<MP_SDK_AVAILABLE, mails, admin_logged, reply>>

\* INSERT and commit; sqlite3.IntegrityError is caught nowhere, the request
\* ends with Flask's 500 and the table as it was
Insert(d) ==
    /\ req[d].pc = "insert"
    /\ IF ViolatesUnique(NewRow(d))
       THEN /\ req' = [req EXCEPT ![d] = Return(500)]
            /\ UNCHANGED ingressos
       ELSE /\ ingressos' = Append(ingressos, NewRow(d))
            /\ req' = [req EXCEPT ![d] = [req[d] EXCEPT !.pc = "mail"]]
    /\ UNCHANGED <<MP_SDK_AVAILABLE, mails, admin_logged, reply>>

\* the exception of the e-mail block reaching Flask
MailResponseRaises(sent) == IF sent THEN 200 ELSE 500

\* the answer after the e-mail block: its exception is caught and logged
MailResponse(sent) == 200

\* the e-mail with the ticket: mail.send is tried once, an exception is only logged
SendMail(d) ==
    /\ req[d].pc = "mail"
    /\ \E sent \in BOOLEAN :
         /\ mails' = mails (+) SetToBag({[to |-> req[d].payer_email,
                                          codigo |-> req[d].codigo, sent |-> sent]})
         /\ req' = [req EXCEPT ![d] = Return(MailResponse(sent))]
    /\ UNCHANGED <<MP_SDK_AVAILABLE, ingressos, admin_logged, reply>>

\* one statement of one webhook request
Webhook(d) ==
    \/ Extract(d)
    \/ Lookup(d)
    \/ CheckStatus(d)
    \/ SelectExisting(d)
    \/ NextSeq(d)
    \/ Insert(d)
    \/ SendMail(d)

(***************************************************************************)
(* The other routes: checkout and the admin area.  Each is served in one   *)
(* step; none of them writes to the table.                                 *)
(***************************************************************************)
ADMIN_USER == "admin"
ADMIN_PASS == "senha123"

\* float(x) of the price posted: "fails" stands for the ValueError
Float(price) ==
    CASE price.k = "int" -> "number"
      [] price.k = "missing" -> "number"
      [] OTHER -> "fails"

\* POST /api/pagar with the e-mail and the price of the JSON body; raises says
\* whether sdk.preference().create raises.  No table access.
api_pagar(email, price, raises) ==
    /\ reply' =
         IF ~MP_SDK_AVAILABLE THEN Response("api_pagar", 500, "SDK Mercado Pago", <<>>)
         ELSE IF Float(price) = "fails" THEN Response("api_pagar", 500, "Internal Server Error", <<>>)
         ELSE IF ~Truthy(Get(email)) THEN Response("api_pagar", 400, "E-mail obrigatorio", <<>>)
         ELSE IF raises THEN Response("api_pagar", 500, "error", <<>>)
         ELSE Response("api_pagar", 200, "preference", <<>>)
    /\ UNCHANGED <<MP_SDK_AVAILABLE, ingressos, req, mails, admin_logged>>

\* the comparison of the login reduced to the user name
CredentialsUserOnly(user, pw) == user = JStr(ADMIN_USER)

\* user == ADMIN_USER and pw == ADMIN_PASS
Credentials(user, pw) == user = JStr(ADMIN_USER) /\ pw = JStr(ADMIN_PASS)

\* GET or POST /admin/login with the form fields user and pass
admin_login(method, user, pw) ==
    /\ IF method = "GET"
       THEN /\ reply' = Response("admin_login", 200, "ADMIN_LOGIN_HTML", <<>>)
            /\ UNCHANGED admin_logged
       ELSE IF Credentials(Get(user), Get(pw))
       THEN /\ admin_logged' = TRUE
            /\ reply' = Response("admin_login", 302, "admin_panel", <<>>)
       ELSE /\ reply' = Response("admin_login", 401, "Credenciais invalidas", <<>>)
            /\ UNCHANGED admin_logged
    /\ UNCHANGED <<MP_SDK_AVAILABLE, ingressos, req, mails>>

\* GET /admin/logout: session.pop("admin_logged", None)
admin_logout ==
    /\ admin_logged' = FALSE
    /\ reply' = Response("admin_logout", 302, "admin_login", <<>>)
    /\ UNCHANGED <<MP_SDK_AVAILABLE, ingressos, req, mails>>

\* the rows sorted by id, largest first
RECURSIVE OrderByIdDesc(_)
OrderByIdDesc(rows) ==
    IF rows = {} THEN <<>>
    ELSE LET top == CHOOSE r \in rows : \A q \in rows : q.id <= r.id
         IN <<top>> \o OrderByIdDesc(rows \ {top})

\* SELECT * FROM ingressos ORDER BY id DESC
SelectAll == OrderByIdDesc(Rows)

\* the decorator: without the session flag the view is not called and the
\* browser is sent to the login page
admin_required(route, view) ==
    IF ~admin_logged THEN Response(route, 302, "admin_login", <<>>) ELSE view

\* GET /admin
admin_panel ==
    /\ reply' = admin_required("admin_panel",
                               Response("admin_panel", 200, "ADMIN_PANEL_HTML", SelectAll))
    /\ UNCHANGED <<MP_SDK_AVAILABLE, ingressos, req, mails, admin_logged>>

\* GET /api/ingressos
api_ingressos ==
    /\ reply' = admin_required("api_ingressos",
                               Response("api_ingressos", 200, "json", SelectAll))
    /\ UNCHANGED <<MP_SDK_AVAILABLE, ingressos, req, mails, admin_logged>>

\* what a browser may send in a form field or a JSON key
Users == {Missing, JStr(ADMIN_USER), JStr("root")}
Passwords == {Missing, JStr(ADMIN_PASS), JStr("1234")}
Emails == {Missing, JStr(""), JStr("a@b.com")}
Prices == {Missing, JInt(50), JStr("abc")}

(***************************************************************************)
(* Specifications.                                                         *)
(***************************************************************************)
\* requests served concurrently, at most MaxInFlight at a time
Next ==
    \/ \E d \in Reqs, n \in Notifications : Post(d, n)
    \/ \E d \in Reqs : Webhook(d)

Spec == Init /\ [][Next]_vars

\* a request is posted only when no other is being served
SeqPost(d, n) == InFlight = {} /\ Post(d, n)

SeqNext ==
    \/ \E d \in Reqs, n \in Notifications : SeqPost(d, n)
    \/ \E d \in Reqs : Webhook(d)

\* requests served one at a time, each to completion before the next
SeqSpec == Init /\ [][SeqNext]_vars

\* the shapes a notification can have: every key missing, "payment", another
\* value; ids that are null, empty, a string or a number; data that is null, a
\* number, a string, a list or an object, with and without "id"
AllNotifications ==
    { Notification(type, topic, id, data, qtopic, qid) :
        type \in {Missing, JStr("payment"), JStr("other")},
        topic \in {Missing, JStr("payment"), JStr("other")},
        id \in {Missing, JNull, JStr(""), JStr("7"), JInt(7)},
        data \in {Missing, JNull, JInt(5), JStr("id"), JStr("x"), JList(<<"id">>), JList(<<>>),
                  JDict(Missing), JDict(JNull), JDict(JStr("")), JDict(JStr("8")), JDict(JInt(8))},
        qtopic \in {Missing, JStr("payment"), JStr("other")},
        qid \in {Missing, JStr(""), JStr("9")} }

\* one request with a notification of any shape, up to the extraction of its id
ExtractNext ==
    \/ \E n \in AllNotifications : Post(1, n)
    \/ Extract(1)

ExtractSpec == Init /\ [][ExtractNext]_vars

(***************************************************************************)
(* format_code on its own: every request holds a seq, as next_seq() may    *)
(* have given it, and formats it.                                          *)
(***************************************************************************)
\* values of seq: one to five digits, around the width of the padding
SeqValues == {1, 2, 23, 999, 9999, 10000, 12345}

FormatInit ==
    /\ MP_SDK_AVAILABLE \in BOOLEAN
    /\ ingressos = <<>>
    /\ req \in [Reqs -> { [Fresh EXCEPT !.pc = "format", !.seq = n] : n \in SeqValues }]
    /\ mails = EmptyBag
    /\ admin_logged = FALSE
    /\ reply = NoReply

\* codigo = format_code(seq)
FormatCode(d) ==
    /\ req[d].pc = "format"
    /\ req' = [req EXCEPT ![d] = [req[d] EXCEPT !.pc = "formatted",
                                                !.codigo = format_code(req[d].seq)]]
    /\ UNCHANGED <<MP_SDK_AVAILABLE, ingressos, mails, admin_logged, reply>>

FormatNext == \E d \in Reqs : FormatCode(d)

FormatSpec == FormatInit /\ [][FormatNext]_vars

(***************************************************************************)
(* The whole site: webhook requests served one at a time and, at any       *)
(* moment, a checkout or a request of the admin's browser.                 *)
(***************************************************************************)
SiteNext ==
    \/ \E d \in Reqs, n \in Notifications : SeqPost(d, n)
    \/ \E d \in Reqs : Webhook(d)
    \/ \E email \in Emails, price \in Prices, raises \in BOOLEAN : api_pagar(email, price, raises)
    \/ \E method \in {"GET", "POST"}, user \in Users, pw \in Passwords : admin_login(method, user, pw)
    \/ admin_logout
    \/ admin_panel
    \/ api_ingressos

SiteSpec == Init /\ [][SiteNext]_vars

(***************************************************************************)
(* The table under every operation: as many webhook requests as can be in  *)
(* flight together, all served concurrently, and at any moment a checkout, *)
(* a login with the right or a wrong password, a logout or a listing.      *)
(***************************************************************************)
StorePost(d, n) == d <= MaxInFlight /\ Post(d, n)

StoreNext ==
    \/ \E d \in Reqs, n \in Notifications : StorePost(d, n)
    \/ \E d \in Reqs : Webhook(d)
    \/ api_pagar(JStr("a@b.com"), Missing, FALSE)
    \/ \E pw \in {JStr(ADMIN_PASS), JStr("1234")} : admin_login("POST", JStr(ADMIN_USER), pw)
    \/ admin_logout
    \/ admin_panel
    \/ api_ingressos

StoreSpec == Init /\ [][StoreNext]_vars

(***************************************************************************)
(* Approved payments with distinct ids, one request at a time: request d   *)
(* carries payment id d, as a string in data.id or as a number in id, and  *)
(* the gateway answers with an approved status.                            *)
(***************************************************************************)
DistinctNotifications(d) ==
    { Notification(JStr("payment"), Missing, Missing, JDict(JStr(DecStr(d))), Missing, Missing),
      Notification(Missing, JStr("payment"), JInt(d), Missing, Missing, Missing) }

ApprovedLookup(d) ==
    /\ Lookup(d)
    /\ req'[d].pc = "status"
    /\ Approved(req'[d].status)

ApprovedNext ==
    \/ \E d \in Reqs : \E n \in DistinctNotifications(d) : SeqPost(d, n)
    \/ \E d \in Reqs : Extract(d)
    \/ \E d \in Reqs : ApprovedLookup(d)
    \/ \E d \in Reqs : CheckStatus(d)
    \/ \E d \in Reqs : SelectExisting(d)
    \/ \E d \in Reqs : NextSeq(d)
    \/ \E d \in Reqs : Insert(d)
    \/ \E d \in Reqs : SendMail(d)

ApprovedSpec == Init /\ [][ApprovedNext]_vars

(***************************************************************************)
(* One payment notified again and again: every request carries payment 1,  *)
(* in one or the other form of the notification, and the requests are      *)
(* served one at a time.                                                   *)
(***************************************************************************)
RedeliveryNext ==
    \/ \E d \in Reqs : \E n \in DistinctNotifications(1) : SeqPost(d, n)
    \/ \E d \in Reqs : Webhook(d)

RedeliverySpec == Init /\ [][RedeliveryNext]_vars

\* the requests that have been answered
Done == { d \in Reqs : req[d].pc = "done" }

\* C1: after any number of requests served one at a time, each for another
\* approved payment, the table has one row per payment delivered (request d
\* delivers payment d) and no two rows have the same code.
C1_OneRowPerApprovedPayment ==
    (MP_SDK_AVAILABLE /\ InFlight = {}) =>
        /\ Len(ingressos) = Cardinality(Done)
        /\ { ingressos[i].mp_payment_id : i \in 1..Len(ingressos) } = { DecStr(d) : d \in Done }
        /\ \A i, j \in 1..Len(ingressos) : i # j => ingressos[i].codigo # ingressos[j].codigo

\* several approved payments have been delivered and answered
C1_Witness ==
    /\ MP_SDK_AVAILABLE
    /\ InFlight = {}
    /\ Cardinality(Done) >= 2
    /\ Len(ingressos) >= 2

(***************************************************************************)
(* Replays and repeated payment ids.                                       *)
(***************************************************************************)
\* the stages of a request before it can have inserted anything
BeforeInsert == {"received", "lookup", "status", "select"}

\* the payment id request d carries, as a string ("" when it has none)
Carried(d) ==
    LET id == IF req[d].pc = "received"
              THEN ExtractPaymentId(req[d].body, req[d].args)
              ELSE req[d].payment_id
    IN IF Truthy(id) THEN PyStr(id) ELSE ""

\* C2: with requests served one after another, a request for a payment that
\* already has a row never changes the table, sends no e-mail and can only end
\* with the answer 200; so a payment delivered again and again keeps one row.
C2_ReplayChangesNothing ==
    /\ [](\A d \in Reqs :
            Cardinality({ i \in 1..Len(ingressos) : ingressos[i].mp_payment_id = Carried(d) }) <= 1)
    /\ [][\A d \in Reqs :
            ( /\ req[d].pc \in BeforeInsert
              /\ Carried(d) # ""
              /\ \E i \in 1..Len(ingressos) : ingressos[i].mp_payment_id = Carried(d) )
            => /\ ingressos' = ingressos
               /\ mails' = mails
               /\ \/ req'[d].pc \in BeforeInsert
                  \/ req'[d].pc = "done" /\ req'[d].response = 200]_vars

\* a request found approved is about to look up a payment that already has its row
C2_Witness ==
    \E d \in Reqs :
        /\ req[d].pc = "select"
        /\ \E i \in 1..Len(ingressos) : ingressos[i].mp_payment_id = Carried(d)
        /\ \E e \in Reqs : e # d /\ req[e].pc = "done" /\ req[e].response = 200

\* C3: no two rows carry the same payment id, whatever the interleaving of the
\* requests.
C3_PaymentRefUnique ==
    \A i, j \in 1..Len(ingressos) :
        i # j => ingressos[i].mp_payment_id # ingressos[j].mp_payment_id

C5_RejectedInsertAnswers200 ==
    [][\A d \in Reqs :
         (req[d].pc = "insert" /\ ViolatesUnique(NewRow(d)) /\ req'[d] # req[d])
         => /\ ingressos' = ingressos
            /\ mails' = mails
            /\ req'[d].pc = "done"
            /\ req'[d].response = 200]_vars

(***************************************************************************)
(* The row of a new ticket.                                                *)
(***************************************************************************)
\* the largest seq in the table, 0 for the empty table
StoreMax ==
    IF Len(ingressos) = 0 THEN 0
    ELSE CHOOSE m \in { ingressos[i].seq : i \in 1..Len(ingressos) } :
            \A i \in 1..Len(ingressos) : ingressos[i].seq <= m

\* the step of request d appends one row: for the payer e-mail e, with status
\* written as paid, the payment id as a string, seq the largest seq plus 1 and
\* the code of that seq
AppendsRowFor(d, e, paid) ==
    /\ Len(ingressos') = Len(ingressos) + 1
    /\ SubSeq(ingressos', 1, Len(ingressos)) = ingressos
    /\ LET row == ingressos'[Len(ingressos')]
       IN /\ row.comprador_email = e
          /\ row.status = paid
          /\ row.mp_payment_id = Carried(d)
          /\ row.seq = StoreMax + 1
          /\ row.codigo = format_code(row.seq)

\* a request of an approved payment without a row, served on its own, goes
\* from the SELECT to the INSERT, which appends the row, and no other step
\* changes the table; emails is the set of values of payer.email it is said for
IssuesOneRow(emails, paid) ==
    \A d \in Reqs :
        LET email == Payer(Carried(d)).payer.email
        IN (req'[d] # req[d] /\ email \in emails) =>
            /\ (req[d].pc = "select" /\ SelectByPayment(Carried(d)) = {})
                   => req'[d].pc = "next_seq"
            /\ req[d].pc = "next_seq" => req'[d].pc = "insert"
            /\ req[d].pc = "insert" => AppendsRowFor(d, email.s, paid)
            /\ req[d].pc # "insert" => ingressos' = ingressos

HasDataId(body) == body.data.k = "dict" /\ body.data.id # Missing

\* the payment id by the five rules of the extraction policy, JNull for none
ClaimedPaymentId(body, args) ==
    IF body.type = JStr("payment") /\ HasDataId(body) THEN body.data.id
    ELSE IF body.topic = JStr("payment") /\ body.id # Missing THEN body.id
    ELSE IF HasDataId(body) THEN body.data.id
    ELSE IF args.topic = JStr("payment") /\ args.id # Missing /\ args.id # JStr("")
    THEN args.id
    ELSE JNull

\* status is the word approved in whatever case
SaysApproved(status) ==
    /\ status.k = "str"
    /\ Len(status.s) = Len("approved")
    /\ \A i \in 1..Len("approved") :
          SubSeq(status.s, i, i) \in {SubSeq("approved", i, i), SubSeq("APPROVED", i, i)}

\* the step ends request d with 200 and touches neither the table nor the e-mails
EndsAsNoOp(d) ==
    /\ ingressos' = ingressos
    /\ mails' = mails
    /\ req'[d].pc = "done"
    /\ req'[d].response = 200

C9_ExtractionPolicy ==
    [][\A d \in Reqs :
         (req[d].pc = "received" /\ req'[d] # req[d] /\ MP_SDK_AVAILABLE) =>
            LET id == ClaimedPaymentId(req[d].body, req[d].args)
            IN IF Truthy(id)
               THEN req'[d].pc = "lookup" /\ req'[d].payment_id = id
               ELSE req'[d].pc = "done" /\ req'[d].response = 200]_vars

(***************************************************************************)
(* Ticket numbers.                                                         *)
(***************************************************************************)
\* C10: under every interleaving the i-th row inserted has seq i: the seq
\* values are 1..n without duplicate or gap, each the largest seq of its
\* moment plus 1.
C10_SeqIsDense == \A i \in 1..Len(ingressos) : ingressos[i].seq = i

\* two tickets were issued and a request lost the race for a seq
C10_Witness ==
    /\ Len(ingressos) >= 2
    /\ \E d \in Done : req[d].response = 500

(***************************************************************************)
(* The table under every operation.                                        *)
(***************************************************************************)
\* the statements of the webhook handler in the order a request goes through
\* them
Stages == <<"idle", "received", "lookup", "status", "select", "next_seq", "insert", "mail", "done">>

\* how far a request is in the handler
Stage(d) == CHOOSE i \in 1..Len(Stages) : Stages[i] = req[d].pc

\* C11: every step of every operation (a statement of a webhook request, a
\* checkout, a login, a logout, a listing by either admin route) keeps every
\* row already in the table, field by field; a step that adds a row adds one
\* row, is the INSERT of a webhook request and is no step of another route;
\* and a request never goes back in the handler, so that it passes its INSERT
\* at most once and adds at most one row.
C11_AppendOnly ==
    [][/\ Len(ingressos') >= Len(ingressos)
       /\ SubSeq(ingressos', 1, Len(ingressos)) = ingressos
       /\ Len(ingressos') <= Len(ingressos) + 1
       /\ ingressos' # ingressos =>
             /\ reply' = reply
             /\ admin_logged' = admin_logged
             /\ \E d \in Reqs : /\ req[d].pc = "insert"
                                /\ req'[d].pc = "mail"
                                /\ \A e \in Reqs \ {d} : req'[e] = req[e]
       /\ \A d \in Reqs :
             req'[d] # req[d] =>
                \/ Stage(d) < CHOOSE i \in 1..Len(Stages) : Stages[i] = req'[d].pc
                \/ req'[d].pc = "done"]_vars

\* with a ticket in the table, a request was refused its INSERT, there was a
\* checkout, and the admin, logged in, has the table listed
C11_Witness ==
    /\ Len(ingressos) >= 1
    /\ \E d \in Done : req[d].response = 500
    /\ admin_logged
    /\ reply.route = "api_ingressos"
    /\ reply.code = 200
    /\ reply.rows # <<>>

(***************************************************************************)
(* The admin area.                                                         *)
(***************************************************************************)
\* the response lists the whole table, the row with the largest id first
ListsTheTable(response) ==
    /\ Len(response.rows) = Len(ingressos)
    /\ \A i \in 1..Len(ingressos) : \E j \in 1..Len(response.rows) : response.rows[j] = ingressos[i]
    /\ \A j \in 1..(Len(response.rows) - 1) : response.rows[j].id > response.rows[j + 1].id

\* the response sends the browser to the login page
ToLogin(response) ==
    /\ response.code = 302
    /\ response.text = "admin_login"
    /\ response.rows = <<>>

\* C12: over any sequence of logins, logouts and views (and of everything
\* else the site does), GET /admin and GET /api/ingressos answer 200 with the
\* whole table, largest id first, when the session flag is set, and redirect
\* to the login page when it is not, leaving the flag as it is; a login sets
\* the flag exactly when it is a POST whose user and pass both equal
\* ADMIN_USER and ADMIN_PASS, any other POST is answered 401 and leaves the
\* flag as it was; the flag is set by no other step; a logout clears it.
C12_AdminGate ==
    [][/\ (admin_panel \/ api_ingressos) =>
             /\ admin_logged' = admin_logged
             /\ IF admin_logged THEN reply'.code = 200 /\ ListsTheTable(reply')
                ELSE ToLogin(reply')
       /\ \A method \in {"GET", "POST"}, user \in Users, pw \in Passwords :
             admin_login(method, user, pw) =>
                IF method = "POST" /\ user = JStr(ADMIN_USER) /\ pw = JStr(ADMIN_PASS)
                THEN admin_logged'
                ELSE /\ admin_logged' = admin_logged
                     /\ method = "POST" => reply'.code = 401
       /\ (~admin_logged /\ admin_logged') =>
             admin_login("POST", JStr(ADMIN_USER), JStr(ADMIN_PASS))
       /\ admin_logout => ~admin_logged' /\ ToLogin(reply')]_vars

\* the admin is logged in and has got the panel with two tickets
C12_Witness ==
    /\ admin_logged
    /\ reply.route = "admin_panel"
    /\ reply.code = 200
    /\ Len(reply.rows) = 2
    /\ Len(ingressos) = 2

(***************************************************************************)
(* The code of a seq.                                                      *)
(***************************************************************************)
\* code is the prefix followed by the digits of seq, with zeros in front up to
\* four digits and no digit of seq dropped
IsCodeOf(code, seq) ==
    LET digits == SubSeq(code, Len(PREFIX) + 1, Len(code))
    IN /\ SubSeq(code, 1, Len(PREFIX)) = PREFIX
       /\ DecVal(digits) = seq
       /\ Len(digits) >= 4
       /\ Len(digits) > 4 => SubSeq(digits, 1, 1) # "0"

\* the requests whose seq has been formatted
Formatted == { d \in Reqs : req[d].pc = "formatted" }

\* C13: format_code(seq) is the prefix and the decimal digits of seq, padded
\* with zeros to at least 4 digits and never cut (1 gives LUAL0001, 23 gives
\* LUAL0023, 10000 gives LUAL10000); so positive seq values that differ give
\* codes that differ.
C13_FormatCode ==
    /\ \A d \in Formatted :
          /\ IsCodeOf(req[d].codigo, req[d].seq)
          /\ req[d].seq = 1 => req[d].codigo = "LUAL0001"
          /\ req[d].seq = 23 => req[d].codigo = "LUAL0023"
          /\ req[d].seq = 10000 => req[d].codigo = "LUAL10000"
    /\ \A d, e \in Formatted : req[d].seq # req[e].seq => req[d].codigo # req[e].codigo

\* the codes of 1, of 23 and of 10000 have been computed
C13_Witness ==
    /\ \E d \in Formatted : req[d].seq = 1
    /\ \E d \in Formatted : req[d].seq = 23
    /\ \E d \in Formatted : req[d].seq = 10000

(***************************************************************************)
(* The states of a payment: unseen (no row) and issued (a row).            *)
(***************************************************************************)
\* table has a row of payment p
IssuedIn(table, p) == \E i \in 1..Len(table) : table[i].mp_payment_id = p

\* the number of rows of payment p in table
RowsOf(table, p) == Cardinality({ i \in 1..Len(table) : table[i].mp_payment_id = p })

\* C14: with the requests of a payment p served one after another, p goes
\* from unseen to issued only by the INSERT of a request for p whose lookup
\* said approved, stays unseen when the lookup fails or says anything else,
\* stays issued (with its one row) on a replay and never goes back to unseen;
\* whatever came before, a request for p that finds p unseen and gets
\* approved from the gateway goes on to the INSERT, which issues the one
\* ticket of p.
C14_PaymentStates ==
    [][/\ \A p \in {"1", "2"} : IssuedIn(ingressos, p) => IssuedIn(ingressos', p)
       /\ ingressos' # ingressos => \E d \in Reqs : req[d].pc = "insert" /\ req'[d] # req[d]
       /\ \A d \in Reqs :
             LET p == Carried(d)
             IN (req'[d] # req[d] /\ p # "") =>
                 /\ (req[d].pc = "lookup" /\ req'[d].pc # "status") => EndsAsNoOp(d)
                 /\ req[d].pc = "status" =>
                       IF SaysApproved(req[d].status) THEN req'[d].pc = "select"
                       ELSE EndsAsNoOp(d)
                 /\ req[d].pc = "select" =>
                       IF IssuedIn(ingressos, p) THEN EndsAsNoOp(d)
                       ELSE req'[d].pc = "next_seq"
                 /\ req[d].pc = "next_seq" => req'[d].pc = "insert"
                 /\ req[d].pc = "insert" =>
                       /\ ~IssuedIn(ingressos, p)
                       /\ RowsOf(ingressos', p) = 1
                       /\ req'[d].pc = "mail"
                 /\ RowsOf(ingressos', p) <= 1]_vars

\* two requests for payment 1 ended without a ticket (their lookups failed or
\* did not say approved) and the third has just issued it
C14_Witness ==
    /\ MP_SDK_AVAILABLE
    /\ Cardinality(Done) = 2
    /\ \E d \in Reqs : req[d].pc = "mail" /\ Carried(d) = "1"
    /\ Len(ingressos) = 1
    /\ ingressos[1].mp_payment_id = "1"

(***************************************************************************)
(* The race for a seq.                                                     *)
(***************************************************************************)
\* request d is at its INSERT with a seq that a row of another payment took
\* after d had read MAX(seq)
LostRace(d) ==
    /\ req[d].pc = "insert"
    /\ \E r \in Rows : r.seq = req[d].seq /\ r.mp_payment_id # Carried(d)

\* C15: two requests of different approved payments can both read MAX(seq)
\* before either inserts (the state C15_Witness); requests holding the same
\* seq hold the same code, and the INSERT of the one that comes second is
\* refused by UNIQUE(codigo): it adds no row and ends the request, so that its
\* payment is left without a row if it had none.
C15_RaceLosesTicket ==
    /\ [](\A d, e \in Reqs :
            (req[d].pc = "insert" /\ req[e].pc = "insert" /\ req[d].seq = req[e].seq)
            => req[d].codigo = req[e].codigo)
    /\ [][\A d \in Reqs :
            (LostRace(d) /\ req'[d] # req[d]) =>
               /\ \E r \in Rows : r.codigo = req[d].codigo
               /\ ingressos' = ingressos
               /\ mails' = mails
               /\ req'[d].pc = "done"
               /\ IssuedIn(ingressos', Carried(d)) = IssuedIn(ingressos, Carried(d))]_vars

\* payments 1 and 2, both approved, read seq 1 on the empty table; payment 1
\* has its row and the request of payment 2, which has none, is at its INSERT
\* with the same seq and code
C15_Witness ==
    \E d \in Reqs :
        /\ LostRace(d)
        /\ Carried(d) = "2"
        /\ req[d].seq = 1
        /\ Len(ingressos) = 1
        /\ ingressos[1].mp_payment_id = "1"
        /\ ingressos[1].seq = 1
        /\ ingressos[1].codigo = req[d].codigo
        /\ ~IssuedIn(ingressos, "2")

(***************************************************************************)
(* Tickets and the gateway's word.                                         *)
(***************************************************************************)
\* the statement a request comes from when it arrives at a statement after
\* the test of the status
Before(pc) ==
    CASE pc = "select" -> "status"
      [] pc = "next_seq" -> "select"
      [] pc = "insert" -> "next_seq"
      [] pc = "mail" -> "insert"

\* C16: a row is added only by the INSERT of a webhook request, for the
\* payment id that request looked up at the gateway, and a request gets to its
\* INSERT only through the test of the status with the status approved that
\* its own lookup returned, for the same payment id; so a notification alone,
\* a failed lookup, a status that is not approved or a checkout insert
\* nothing, and without the SDK the table stays empty.
C16_NoTicketWithoutApproval ==
    /\ [](~MP_SDK_AVAILABLE => ingressos = <<>>)
    /\ [][/\ \A d \in Reqs :
                req'[d] # req[d] =>
                   /\ req'[d].pc = "status" =>
                         /\ req[d].pc = "lookup"
                         /\ Truthy(req[d].payment_id)
                         /\ req'[d].payment_id = req[d].payment_id
                   /\ req'[d].pc \in {"select", "next_seq", "insert", "mail"} =>
                         /\ req[d].pc = Before(req'[d].pc)
                         /\ req'[d].payment_id = req[d].payment_id
                         /\ req[d].pc = "status" => SaysApproved(req[d].status)
          /\ ingressos' # ingressos =>
                \E d \in Reqs :
                   /\ req[d].pc = "insert"
                   /\ req'[d].pc = "mail"
                   /\ Len(ingressos') = Len(ingressos) + 1
                   /\ ingressos'[Len(ingressos')].mp_payment_id = PyStr(req[d].payment_id)
          /\ reply' # reply => ingressos' = ingressos]_vars

\* a checkout has been answered with a preference, a request is waiting for
\* the gateway's answer, and the only row is the one a request has just
\* inserted for the payment it found approved
C16_Witness ==
    /\ reply.route = "api_pagar"
    /\ reply.code = 200
    /\ Len(ingressos) = 1
    /\ \E d \in Reqs :
          /\ req[d].pc = "mail"
          /\ ingressos[1].mp_payment_id = PyStr(req[d].payment_id)
    /\ \E e \in Reqs : req[e].pc = "lookup"

(***************************************************************************)
(* The e-mail of a ticket.                                                 *)
(***************************************************************************)
\* the messages handed to mail.send for a code that a row of payment p carries
MailsOf(p) ==
    { m \in BagToSet(mails) :
        \E i \in 1..Len(ingressos) :
            ingressos[i].codigo = m.codigo /\ ingressos[i].mp_payment_id = p }

\* C17: a message for code c to buyer b is handed to mail.send only when the
\* row with code c and comprador_email b is in the table already; and with the
\* requests served one at a time there is at most one message per payment, a
\* replay sending none.
C17_MailAfterRow ==
    /\ [](\A m \in BagToSet(mails) :
            \E i \in 1..Len(ingressos) :
                ingressos[i].codigo = m.codigo /\ ingressos[i].comprador_email = m.to)
    /\ [](\A p \in {"1", "2"} :
            /\ Cardinality(MailsOf(p)) <= 1
            /\ \A m \in MailsOf(p) : CopiesIn(m, mails) = 1)
    /\ [][mails' # mails =>
            \E d \in Reqs :
               /\ req[d].pc = "mail"
               /\ req'[d].pc = "done"
               /\ \E i \in 1..Len(ingressos) :
                     /\ ingressos[i].codigo = req[d].codigo
                     /\ ingressos[i].comprador_email = req[d].payer_email
                     /\ ingressos[i].mp_payment_id = Carried(d)
               /\ \E sent \in BOOLEAN :
                     mails' = mails (+) SetToBag({[to |-> req[d].payer_email,
                                                   codigo |-> req[d].codigo, sent |-> sent]})
               /\ ingressos' = ingressos]_vars
    /\ [][\A d \in Reqs :
            (req[d].pc \in BeforeInsert /\ IssuedIn(ingressos, Carried(d)) /\ req'[d] # req[d])
            => mails' = mails]_vars

\* the tickets of payments 1 and 2 were issued and mailed, one message each,
\* and payment 1, notified again, has been found approved again
C17_Witness ==
    /\ Len(ingressos) = 2
    /\ BagCardinality(mails) = 2
    /\ Cardinality(MailsOf("1")) = 1
    /\ Cardinality(MailsOf("2")) = 1
    /\ \E d \in Reqs : req[d].pc = "select" /\ Carried(d) = "1"

(***************************************************************************)
(* At-least-once delivery: the provider notifies payment d to worker d;    *)
(* payment 1 is notified again whenever its request has been answered,     *)
(* while the other payments are notified one after another, each request   *)
(* served concurrently with those of payment 1.  The SDK is installed.     *)
(* Fairness: the provider keeps notifying payment 1 and the request being  *)
(* served for it gets its next statement executed; the gateway does not    *)
(* fail for ever: of the lookups of payment 1 some keep answering          *)
(* approved.                                                               *)
(***************************************************************************)
\* the worker that has answered its request takes notification n
Redeliver(d, n) ==
    /\ req[d].pc = "done"
    /\ Cardinality(InFlight) < MaxInFlight
    /\ req' = [req EXCEPT ![d] = [Fresh EXCEPT !.pc = "received", !.body = n.body, !.args = n.args]]
    /\ UNCHANGED <<MP_SDK_AVAILABLE, ingressos, mails, admin_logged, reply>>

\* payment d is notified, for the first time or again
Delivers(d) ==
    \E n \in DistinctNotifications(d) : Post(d, n) \/ Redeliver(d, n)

\* another payment is notified when no request of another payment is served
DeliversOther(d) ==
    /\ d # 1
    /\ InFlight \subseteq {1}
    /\ \E n \in DistinctNotifications(d) : Post(d, n)

LiveInit == Init /\ MP_SDK_AVAILABLE

LiveNext ==
    \/ Delivers(1)
    \/ \E d \in Reqs : DeliversOther(d)
    \/ \E d \in Reqs : Webhook(d)

LiveSpec ==
    /\ LiveInit
    /\ [][LiveNext]_vars
    /\ WF_vars(Delivers(1) \/ Webhook(1))
    /\ SF_vars(ApprovedLookup(1))

====
